---- MODULE Spec2Model ----
(***************************************************************************)
(* Model of the deployment engine of SMLBackend (DeploymentService), of the  *)
(* remote host it acts on through one SSH session per deploy() call, and of *)
(* the deploy request handler that calls it and records the outcome.        *)
(*                                                                          *)
(* pc[r] names the awaited remote call (ssh.connect, ssh.execCommand,       *)
(* ssh.putFile) run r is suspended on.  The action named after a call site  *)
(* takes the call's response and runs the code up to the next await, which  *)
(* issues the next call, or to the return / throw of deploy().  A call      *)
(* answers with exit code 0 ("ok"), with a non-zero exit code ("nonzero"),  *)
(* or the call itself rejects ("raise").                                    *)
(***************************************************************************)
EXTENDS Naturals, Integers, Sequences, FiniteSets, TLC

\* ---------------------------------------------------------------- bounds
\* deploy() calls in one behaviour of Spec.
MaxDeploys == 2
\* deploy() calls in one behaviour of SpecRetention.
MaxRetentionDeploys == 8
\* Concurrent deploy() activations the model has room for.
NumRuns == 2
\* Deploy requests in one behaviour of SpecRoute.
MaxRouteDeploys == 2
\* Rows the table servers ever holds.
MaxServers == 2
\* Rows the table projects ever holds.
MaxProjects == 2
\* API requests in one behaviour of SpecCredentials, SpecTest and
\* SpecProjects.
MaxRequests == 3

\* ------------------------------------------------------- program constants
\* `tail -n +6`: the first line of the newest-first listing that is deleted.
TailFrom == 6

Runs == 1..NumRuns

\* Project names (3 to 100 characters) as character sequences: "web" and
\* "web_2" (the first, followed by "_", is a prefix of the second).
NameA == <<"w", "e", "b">>
NameAB == <<"w", "e", "b", "_", "2">>
Names == {NameA, NameAB}

ProjectTypes == {"nodejs", "php", "python", "static", "custom"}
SourceTypes == {"github", "upload"}
\* path.extname(source_path) of the uploaded file, in the case it was
\* uploaded with; "" is a path without extension.
Exts == {".zip", ".ZIP", ".tar", ".gz", ".tgz", ".Tgz", ".txt", ""}

Null == "null"
\* A NULL text column is the empty sequence of lines / the empty extension.
NoText == <<>>

\* Lines of a custom_commands text: "" is an empty line, " " a line of
\* white space, "A" and "B" are commands.
BlankLines == {"", " "}
CommandLines == {"A", "B"}

\* custom_commands values: NULL, the empty string (one empty line), and texts
\* of one to three lines.
CustomFields ==
    { NoText, <<"">>, <<" ">>, <<"A">>, <<"A", "B">>, <<"A", "", "B">>,
      <<"", "A">> }

\* Server descriptors differ in the credentials they carry.
Server(pw, key) == [ssh_password |-> pw, ssh_private_key |-> key]
PwServer == Server(TRUE, FALSE)
Servers == { Server(pw, key) : pw \in BOOLEAN, key \in BOOLEAN }

Project(n, t, s, e, c, sv) ==
    [name |-> n, project_type |-> t, source_type |-> s, ext |-> e,
     custom_commands |-> c, server |-> sv]

\* The project descriptors deploy() is called with.  The fields are read by
\* separate steps of the run, so each is varied on its own.
GithubProjects ==
    { Project(NameA, t, "github", "", NoText, PwServer) : t \in ProjectTypes }
        \cup { Project(NameAB, "static", "github", "", NoText, PwServer) }
UploadProjects ==
    { Project(NameA, "static", "upload", e, NoText, PwServer) : e \in Exts }
CustomProjects ==
    { Project(NameA, "static", "github", "", c, PwServer) :
        c \in CustomFields }
ServerProjects ==
    { Project(NameA, "static", "github", "", NoText, sv) : sv \in Servers }
Projects ==
    GithubProjects \cup UploadProjects \cup CustomProjects \cup ServerProjects

\* The descriptors of SpecRetention: the same two names, deployed repeatedly.
RetentionProjects ==
    { Project(n, "static", "github", "", NoText, PwServer) : n \in Names }

VARIABLES
    pc,         \* pc[r]: the call site run r is at, or idle / done / failed
    proj,       \* proj[r]: the project descriptor of run r
    inflight,   \* inflight[r]: remote calls of run r issued and not answered
    log,        \* log[r]: the remote calls run r has issued, in order
    sess,       \* sess[r]: "new", "open" (connected) or "closed" (disposed)
    disposals,  \* disposals[r]: calls of ssh.dispose() in run r
    result,     \* result[r]: Null, "ok" (returned true) or the error raised
    config,     \* config[r]: the credentials of the connect configuration
    stamp,      \* stamp[r]: the timestamp taken by createBackup
    ci,         \* ci[r]: index of the custom command being run
    pulls,      \* pulls[r]: the commands the host's shell ran for the pull
    absorbed,   \* absorbed[r]: createBackup caught a rejected call in run r
    cleaned,    \* cleaned[r]: the retention command of run r exited 0
    last,       \* last[r]: <<call site, answer>> of the last answered call
    root,       \* the deploy root directory exists on the host
    dir,        \* dir[n]: "absent", "plain" (a directory) or "repo" (a checkout)
    bdir,       \* the backup directory exists on the host
    archives,   \* backup archives on the host: [name, stamp]
    created,    \* every backup archive ever written
    tmp,        \* staged upload files on the host, by extension
    now,        \* the clock
    deploys,    \* deploy() calls so far
    rt,         \* rt[r]: position of the deploy request that owns run r
    rproj,      \* rproj[r]: the project the request loaded
    status,     \* status[n]: the status column of the project named n
    last_deployment, \* last_deployment[n]: that column, 0 for NULL
    writes,     \* writes[r]: the updates the request of run r has made
    serverRows, \* serverRows[i]: the row of table servers with id i, or NoRow
    projectRows, \* projectRows[i]: the row of table projects with id i, or NoRow
    serial,     \* serial[t]: the last id the table t has given out
    h,          \* h[k]: the API request handled in slot k and its position
    requests    \* API requests taken so far

runVars == <<pc, proj, inflight, log, sess, disposals, result, config, stamp,
             ci, pulls, absorbed, cleaned, last>>
hostVars == <<root, dir, bdir, archives, created, tmp, now>>
routeVars == <<rt, rproj, status, last_deployment, writes>>
apiVars == <<serverRows, projectRows, serial, h, requests>>
deployVars == <<runVars, hostVars, deploys, routeVars>>
vars == <<pc, proj, inflight, log, sess, disposals, result, config, stamp, ci,
          pulls, absorbed, cleaned, last, root, dir, bdir, archives, created,
          tmp, now,
          deploys, rt, rproj, status, last_deployment, writes, serverRows,
          projectRows, serial, h, requests>>

\* ----------------------------------------------------- the API's inputs
ServerIds == 1..MaxServers
ProjectIds == 1..MaxProjects

\* findByPk's null, and a table position without a row.
NoRow == [row |-> "none"]

\* A slot that has handled no request yet.
NoRequest == [op |-> "none", at |-> "idle", code |-> 0]

\* req.body.ssh_password and req.body.ssh_private_key: left out, the empty
\* string, or a value.
Credentials ==
    [ssh_password : {Null, "", "pw"}, ssh_private_key : {Null, "", "key"}]

\* ------------------------------------------------------------ pure helpers
\* connectSSH, lines 48-58: the credentials put into the connect config.
ConnectConfig(server) ==
    IF server.ssh_password THEN {"password"}
    ELSE IF server.ssh_private_key THEN {"privateKey"}
    ELSE {}

\* `${project.name}_${timestamp}.tar.gz` as a character sequence.  The
\* timestamp (digits, "-", "T", "Z", never "_") is the one character "t";
\* the suffix, the same in every file name and in the glob, is left out.
ArchiveFile(a) == a.name \o <<"_", "t">>

IsPrefix(s, t) == Len(s) <= Len(t) /\ SubSeq(t, 1, Len(s)) = s

\* The shell glob `${project.name}_*.tar.gz` of the retention command.
GlobMatches(name, a) == IsPrefix(name \o <<"_">>, ArchiveFile(a))

Matching(name, files) == { a \in files : GlobMatches(name, a) }

\* Removed with the listing cut one line late (`tail -n +7`).
Removed_OffByOne(name, files) ==
    { a \in Matching(name, files) :
        Cardinality({ b \in Matching(name, files) : b.stamp > a.stamp })
            >= TailFrom }

\* `ls -t ... | tail -n +6 | xargs -r rm`: the files from line TailFrom of
\* the newest-first listing are removed.
Removed(name, files) ==
    { a \in Matching(name, files) :
        Cardinality({ b \in Matching(name, files) : b.stamp > a.stamp })
            >= TailFrom - 1 }

\* project.custom_commands is truthy: not NULL and not the empty string.
Truthy(text) == text # NoText /\ text # <<"">>

\* Commands with the lines not trimmed: only empty lines are dropped.
Commands_Untrimmed(text) == SelectSeq(text, LAMBDA l : l # "")

\* .split('\n').filter(cmd => cmd.trim())
Commands(text) == SelectSeq(text, LAMBDA l : l \notin BlankLines)

\* String.prototype.toLowerCase() on the extensions above, with the upper
\* case left as it is.
ToLowerCase_Identity(e) == e

\* String.prototype.toLowerCase() on the extensions above.
ToLowerCase(e) ==
    CASE e = ".ZIP" -> ".zip"
      [] e = ".Tgz" -> ".tgz"
      [] OTHER -> e

\* deployFromUpload, lines 141-148: the extraction command by extension.
Extractor(ext) ==
    IF ext = ".zip" THEN "unzip"
    ELSE IF ext \in {".tar", ".gz", ".tgz"} THEN "tar"
    ELSE "cp"

\* deploy, lines 20-24: the first call of the source step.
SourceEntry(p) ==
    IF p.source_type = "github" THEN "gh_probe"
    ELSE IF p.source_type = "upload" THEN "up_mkdir"
    ELSE "none"

\* executeProjectTypeCommands, lines 161-201: the first call of the build.
BuildEntry(p) ==
    CASE p.project_type = "nodejs" -> "node_install"
      [] p.project_type = "php" -> "php_check"
      [] p.project_type = "python" -> "py_check"
      [] OTHER -> "chmod"

Idle(r) == pc[r] \in {"idle", "done", "failed"}

\* ------------------------------------------------- control-flow fragments
\* Call with the previous call not awaited: its response is still to come
\* when the next call is issued.
Call_NoAwait(r, site, arg) ==
    /\ pc' = [pc EXCEPT ![r] = site]
    /\ log' = [log EXCEPT ![r] = Append(@, <<site, arg>>)]
    /\ inflight' = [inflight EXCEPT ![r] = @ + 1]
    /\ UNCHANGED <<disposals, result>>

\* The response of the awaited call is taken and the next call is issued.
Call(r, site, arg) ==
    /\ pc' = [pc EXCEPT ![r] = site]
    /\ log' = [log EXCEPT ![r] = Append(@, <<site, arg>>)]
    /\ inflight' = [inflight EXCEPT ![r] = (@ - 1) + 1]
    /\ UNCHANGED <<disposals, result>>

\* Returned with the session kept in a field of the exported service object
\* instead of a local of deploy(): dispose releases the session of every run.
Returned_SharedSession(r) ==
    /\ pc' = [pc EXCEPT ![r] = "done"]
    /\ inflight' = [inflight EXCEPT ![r] = @ - 1]
    /\ sess' = [q \in Runs |-> "closed"]
    /\ disposals' = [disposals EXCEPT ![r] = @ + 1]
    /\ result' = [result EXCEPT ![r] = "ok"]
    /\ UNCHANGED <<log, ci>>

\* deploy, lines 34-37: dispose and return true.
Returned(r) ==
    /\ pc' = [pc EXCEPT ![r] = "done"]
    /\ inflight' = [inflight EXCEPT ![r] = @ - 1]
    /\ sess' = [sess EXCEPT ![r] = "closed"]
    /\ disposals' = [disposals EXCEPT ![r] = @ + 1]
    /\ result' = [result EXCEPT ![r] = "ok"]
    /\ UNCHANGED <<log, ci>>

\* Thrown with the catch block's ssh.dispose() left out.
Thrown_NoDispose(r, err) ==
    /\ pc' = [pc EXCEPT ![r] = "failed"]
    /\ inflight' = [inflight EXCEPT ![r] = @ - 1]
    /\ result' = [result EXCEPT ![r] = err]
    /\ UNCHANGED <<sess, disposals, log, ci>>

\* deploy, lines 38-44: dispose and rethrow.
Thrown(r, err) ==
    /\ pc' = [pc EXCEPT ![r] = "failed"]
    /\ inflight' = [inflight EXCEPT ![r] = @ - 1]
    /\ sess' = [sess EXCEPT ![r] = "closed"]
    /\ disposals' = [disposals EXCEPT ![r] = @ + 1]
    /\ result' = [result EXCEPT ![r] = err]
    /\ UNCHANGED <<log, ci>>

\* deploy, lines 29-37: the custom commands, if any, else the return.
StartCustom(r) ==
    IF Truthy(proj[r].custom_commands)
            /\ Commands(proj[r].custom_commands) # <<>>
    THEN /\ Call(r, "custom", Commands(proj[r].custom_commands)[1])
         /\ ci' = [ci EXCEPT ![r] = 1]
         /\ UNCHANGED sess
    ELSE Returned(r)

\* deploy, lines 26-27, and the switch of executeProjectTypeCommands.
StartBuild(r) ==
    /\ Call(r, BuildEntry(proj[r]), "")
    /\ UNCHANGED <<sess, ci>>

\* deploy, lines 19-27: the source step by source_type.
StartSource(r) ==
    IF SourceEntry(proj[r]) = "none" THEN StartBuild(r)
    ELSE /\ Call(r, SourceEntry(proj[r]), "")
         /\ UNCHANGED <<sess, ci>>

\* A call made by a step that has no other control effect.
Then(r, site, arg) ==
    /\ Call(r, site, arg)
    /\ UNCHANGED <<sess, ci>>

\* Absorb with the catch block rethrowing to deploy.
Absorb_Rethrow(r) ==
    /\ absorbed' = [absorbed EXCEPT ![r] = TRUE]
    /\ Thrown(r, "ExecError")

\* createBackup, lines 88-91: the catch block; the deployment goes on.
Absorb(r) ==
    /\ absorbed' = [absorbed EXCEPT ![r] = TRUE]
    /\ StartSource(r)

At(r, site) == pc[r] = site /\ inflight[r] > 0

\* The awaited call of run r is answered with `code`.
Answer(r, code) == last' = [last EXCEPT ![r] = <<pc[r], code>>]

\* -------------------------------------------------------------- the state
NoProject == Project(<<>>, "static", "github", "", NoText, Server(FALSE, FALSE))

Init ==
    /\ pc = [r \in Runs |-> "idle"]
    /\ proj = [r \in Runs |-> NoProject]
    /\ inflight = [r \in Runs |-> 0]
    /\ log = [r \in Runs |-> <<>>]
    /\ sess = [r \in Runs |-> "closed"]
    /\ disposals = [r \in Runs |-> 0]
    /\ result = [r \in Runs |-> Null]
    /\ config = [r \in Runs |-> {}]
    /\ stamp = [r \in Runs |-> 0]
    /\ ci = [r \in Runs |-> 0]
    /\ pulls = [r \in Runs |-> <<>>]
    /\ absorbed = [r \in Runs |-> FALSE]
    /\ cleaned = [r \in Runs |-> FALSE]
    /\ last = [r \in Runs |-> <<"", "">>]
    /\ root = FALSE
    /\ dir = [n \in Names |-> "absent"]
    /\ bdir = FALSE
    /\ archives = {}
    /\ created = {}
    /\ tmp = {}
    /\ now = 0
    /\ deploys = 0
    /\ rt = [r \in Runs |-> "none"]
    /\ rproj = [r \in Runs |-> NoProject]
    /\ status = [n \in Names |-> "inactive"]
    /\ last_deployment = [n \in Names |-> 0]
    /\ writes = [r \in Runs |-> <<>>]
    /\ serverRows = [i \in ServerIds |-> NoRow]
    /\ projectRows = [i \in ProjectIds |-> NoRow]
    /\ serial = [t \in {"servers", "projects"} |-> 0]
    /\ h = [k \in Runs |-> NoRequest]
    /\ requests = 0

\* --------------------------------------------------------------- deploy()
\* deploy, lines 7-14, and connectSSH, lines 47-60: a new session object, the
\* connect configuration, and ssh.connect is awaited.
Begin(r, p) ==
    /\ Idle(r)
    /\ proj' = [proj EXCEPT ![r] = p]
    /\ config' = [config EXCEPT ![r] = ConnectConfig(p.server)]
    /\ deploys' = deploys + 1
    /\ pc' = [pc EXCEPT ![r] = "connect"]
    /\ log' = [log EXCEPT ![r] = << <<"connect", "">> >>]
    /\ inflight' = [inflight EXCEPT ![r] = 1]
    /\ sess' = [sess EXCEPT ![r] = "new"]
    /\ disposals' = [disposals EXCEPT ![r] = 0]
    /\ result' = [result EXCEPT ![r] = Null]
    /\ stamp' = [stamp EXCEPT ![r] = 0]
    /\ ci' = [ci EXCEPT ![r] = 0]
    /\ pulls' = [pulls EXCEPT ![r] = <<>>]
    /\ absorbed' = [absorbed EXCEPT ![r] = FALSE]
    /\ cleaned' = [cleaned EXCEPT ![r] = FALSE]
    /\ last' = [last EXCEPT ![r] = <<"", "">>]

\* deploy() called with one of `projects`.  `limit` is the number of deploy()
\* calls the caller has in progress at once, `cap` bounds the behaviour.
StartDeploy(r, projects, limit, cap) ==
    /\ \A q \in Runs : q < r => ~Idle(q)
    /\ Cardinality({ q \in Runs : ~Idle(q) }) < limit
    /\ deploys < cap
    /\ \E p \in projects : Begin(r, p)
    /\ UNCHANGED hostVars

\* Connect with a rejected ssh.connect caught and logged inside connectSSH:
\* deploy goes on to the backup without a connection.
Connect_Swallowed(r) ==
    /\ At(r, "connect")
    /\ \/ /\ Answer(r, "ok")
          /\ sess' = [sess EXCEPT ![r] = "open"]
       \/ /\ Answer(r, "raise")
          /\ UNCHANGED sess
    /\ now' = now + 1
    /\ stamp' = [stamp EXCEPT ![r] = now + 1]
    /\ Call(r, "bk_probe", "")
    /\ UNCHANGED <<ci, proj, config, pulls, absorbed, cleaned, root, dir,
                   bdir, archives, created, tmp, deploys>>

\* connectSSH, lines 60-61, then createBackup, lines 64-72: the connection
\* is up, the backup's timestamp is taken and the probe is issued; or
\* ssh.connect rejects and deploy's catch block runs.
Connect(r) ==
    /\ At(r, "connect")
    /\ \/ /\ Answer(r, "ok")
          /\ sess' = [sess EXCEPT ![r] = "open"]
          /\ now' = now + 1
          /\ stamp' = [stamp EXCEPT ![r] = now + 1]
          /\ Call(r, "bk_probe", "")
          /\ UNCHANGED ci
       \/ /\ Answer(r, "raise")
          /\ Thrown(r, "ConnectionError")
          /\ UNCHANGED <<now, stamp>>
    /\ UNCHANGED <<proj, config, pulls, absorbed, cleaned, root, dir, bdir,
                   archives, created, tmp, deploys>>

\* BackupProbe with the answer of `test -d` not read: the backup is made
\* whether or not the project directory exists.
BackupProbe_Unread(r) ==
    /\ At(r, "bk_probe")
    /\ \/ /\ Answer(r, "ok")
          /\ Then(r, "bk_mkdir", "")
          /\ UNCHANGED absorbed
       \/ /\ Answer(r, "raise")
          /\ Absorb(r)
    /\ UNCHANGED <<proj, config, pulls, stamp, cleaned, hostVars, deploys>>

\* createBackup, lines 72-78: the answer of `test -d`; mkdir -p of the backup
\* directory when the project directory exists.
BackupProbe(r) ==
    /\ At(r, "bk_probe")
    /\ \/ /\ Answer(r, "ok")
          /\ dir[proj[r].name] # "absent"
          /\ Then(r, "bk_mkdir", "")
          /\ UNCHANGED absorbed
       \/ /\ Answer(r, "ok")
          /\ dir[proj[r].name] = "absent"
          /\ StartSource(r)
          /\ UNCHANGED absorbed
       \/ /\ Answer(r, "raise")
          /\ Absorb(r)
    /\ UNCHANGED <<proj, config, pulls, stamp, cleaned, hostVars, deploys>>

\* createBackup, lines 78-81: mkdir -p answered (unchecked), tar issued.
BackupMkdir(r) ==
    /\ At(r, "bk_mkdir")
    /\ \/ /\ Answer(r, "ok")
          /\ bdir' = TRUE
          /\ Then(r, "bk_tar", "")
          /\ UNCHANGED absorbed
       \/ /\ Answer(r, "nonzero")
          /\ Then(r, "bk_tar", "")
          /\ UNCHANGED <<bdir, absorbed>>
       \/ /\ Answer(r, "raise")
          /\ Absorb(r)
          /\ UNCHANGED bdir
    /\ UNCHANGED <<proj, config, pulls, stamp, cleaned, root, dir, archives,
                   created, tmp, now, deploys>>

\* The archive tar writes for run r.
NewArchive(r) == [name |-> proj[r].name, stamp |-> stamp[r]]

\* createBackup, lines 81-86: tar answered (unchecked), the retention
\* command issued.  tar exits 0 only with both directories in place.
BackupTar(r) ==
    /\ At(r, "bk_tar")
    /\ \/ /\ Answer(r, "ok")
          /\ bdir /\ dir[proj[r].name] # "absent"
          /\ archives' = archives \cup {NewArchive(r)}
          /\ created' = created \cup {NewArchive(r)}
          /\ Then(r, "bk_clean", "")
          /\ UNCHANGED absorbed
       \/ /\ Answer(r, "nonzero")
          /\ Then(r, "bk_clean", "")
          /\ UNCHANGED <<archives, created, absorbed>>
       \/ /\ Answer(r, "raise")
          /\ Absorb(r)
          /\ UNCHANGED <<archives, created>>
    /\ UNCHANGED <<proj, config, pulls, stamp, cleaned, root, dir, bdir, tmp,
                   now, deploys>>

\* createBackup, lines 86-87: the retention command answered (unchecked).
\* It exits 0 only with the backup directory in place.
BackupClean(r) ==
    /\ At(r, "bk_clean")
    /\ \/ /\ Answer(r, "ok")
          /\ bdir
          /\ archives' = archives \ Removed(proj[r].name, archives)
          /\ cleaned' = [cleaned EXCEPT ![r] = TRUE]
          /\ StartSource(r)
          /\ UNCHANGED absorbed
       \/ /\ Answer(r, "nonzero")
          /\ StartSource(r)
          /\ UNCHANGED <<archives, cleaned, absorbed>>
       \/ /\ Answer(r, "raise")
          /\ Absorb(r)
          /\ UNCHANGED <<archives, cleaned>>
    /\ UNCHANGED <<proj, config, pulls, stamp, root, dir, bdir, created, tmp,
                   now, deploys>>

\* deployFromGitHub, lines 100-117: the answer of `test -d`; git pull when
\* the directory exists, else mkdir -p of the deploy root.
GitProbe(r) ==
    /\ At(r, "gh_probe")
    /\ \/ /\ Answer(r, "ok")
          /\ dir[proj[r].name] # "absent"
          /\ Then(r, "gh_pull", "")
       \/ /\ Answer(r, "ok")
          /\ dir[proj[r].name] = "absent"
          /\ Then(r, "gh_mkroot", "")
       \/ /\ Answer(r, "raise")
          /\ Thrown(r, "ExecError")
    /\ UNCHANGED <<proj, config, pulls, stamp, absorbed, cleaned, hostVars,
                   deploys>>

\* `cd ${projectPath} && git pull origin main || git pull origin master` as
\* the host's shell runs it, (cd && pull main) || pull master, on a directory
\* in state d.  An outcome tells of each command whether it exited 0: cd may
\* fail on a directory that exists; a pull exits 0 only in a checkout.  After
\* a failed cd the pull of master runs in the session's login directory,
\* which is no checkout.
PullOutcomes(d) ==
    { o \in [cd : BOOLEAN, main : BOOLEAN, master : BOOLEAN] :
        /\ o.main => o.cd /\ d = "repo"
        /\ o.master => o.cd /\ d = "repo" /\ ~o.main }

\* The commands the shell runs, in order, each with whether it exited 0.
PullRan(o) ==
    << <<"cd", o.cd>> >>
        \o (IF o.cd THEN << <<"main", o.main>> >> ELSE <<>>)
        \o (IF o.cd /\ o.main THEN <<>> ELSE << <<"master", o.master>> >>)

\* PullExit for `cd ... && git pull origin main`, without the fallback's
\* exit code.
PullExit_MainOnly(o) == IF o.cd /\ o.main THEN "ok" ELSE "nonzero"

\* The exit code of the command line: that of the last command run.
PullExit(o) == IF (o.cd /\ o.main) \/ o.master THEN "ok" ELSE "nonzero"

\* GitPull with the exit code of git pull not checked.
GitPull_Unchecked(r) ==
    /\ At(r, "gh_pull")
    /\ \/ /\ \E o \in PullOutcomes(dir[proj[r].name]) :
                /\ pulls' = [pulls EXCEPT ![r] = PullRan(o)]
                /\ Answer(r, PullExit(o))
          /\ StartBuild(r)
       \/ /\ Answer(r, "raise")
          /\ Thrown(r, "ExecError")
          /\ UNCHANGED pulls
    /\ UNCHANGED <<proj, config, stamp, absorbed, cleaned, hostVars, deploys>>

\* GitPull with a failed pull falling back to a fresh clone.
GitPull_CloneOnFail(r) ==
    /\ At(r, "gh_pull")
    /\ \/ \E o \in PullOutcomes(dir[proj[r].name]) :
            /\ pulls' = [pulls EXCEPT ![r] = PullRan(o)]
            /\ Answer(r, PullExit(o))
            /\ IF PullExit(o) = "ok" THEN StartBuild(r)
               ELSE Then(r, "gh_mkroot", "")
       \/ /\ Answer(r, "raise")
          /\ Thrown(r, "ExecError")
          /\ UNCHANGED pulls
    /\ UNCHANGED <<proj, config, stamp, absorbed, cleaned, hostVars, deploys>>

\* deployFromGitHub, lines 105-111: the pull command line answered; a
\* non-zero exit code throws.
GitPull(r) ==
    /\ At(r, "gh_pull")
    /\ \/ \E o \in PullOutcomes(dir[proj[r].name]) :
            /\ pulls' = [pulls EXCEPT ![r] = PullRan(o)]
            /\ Answer(r, PullExit(o))
            /\ IF PullExit(o) = "ok" THEN StartBuild(r)
               ELSE Thrown(r, "SourceError")
       \/ /\ Answer(r, "raise")
          /\ Thrown(r, "ExecError")
          /\ UNCHANGED pulls
    /\ UNCHANGED <<proj, config, stamp, absorbed, cleaned, hostVars, deploys>>

\* deployFromGitHub, lines 115-117: mkdir -p answered (unchecked), git clone
\* issued.
GitMkroot(r) ==
    /\ At(r, "gh_mkroot")
    /\ \/ /\ Answer(r, "ok")
          /\ root' = TRUE
          /\ Then(r, "gh_clone", "")
       \/ /\ Answer(r, "nonzero")
          /\ Then(r, "gh_clone", "")
          /\ UNCHANGED root
       \/ /\ Answer(r, "raise")
          /\ Thrown(r, "ExecError")
          /\ UNCHANGED root
    /\ UNCHANGED <<proj, config, pulls, stamp, absorbed, cleaned, dir, bdir,
                   archives, created, tmp, now, deploys>>

\* deployFromGitHub, lines 117-123: git clone answered; a non-zero exit code
\* throws.  A clone exits 0 only into an absent directory of the deploy root.
GitClone(r) ==
    /\ At(r, "gh_clone")
    /\ \/ /\ Answer(r, "ok")
          /\ root /\ dir[proj[r].name] = "absent"
          /\ dir' = [dir EXCEPT ![proj[r].name] = "repo"]
          /\ StartBuild(r)
       \/ /\ Answer(r, "nonzero")
          /\ Thrown(r, "SourceError")
          /\ UNCHANGED dir
       \/ /\ Answer(r, "raise")
          /\ Thrown(r, "ExecError")
          /\ UNCHANGED dir
    /\ UNCHANGED <<proj, config, pulls, stamp, absorbed, cleaned, root, bdir,
                   archives, created, tmp, now, deploys>>

\* deployFromUpload, lines 133-136: mkdir -p of the project directory
\* answered (unchecked), the file transfer issued.
UploadMkdir(r) ==
    /\ At(r, "up_mkdir")
    /\ \/ /\ Answer(r, "ok")
          /\ root' = TRUE
          /\ dir' = [dir EXCEPT ![proj[r].name] =
                        IF @ = "absent" THEN "plain" ELSE @]
          /\ Then(r, "up_put", "")
       \/ /\ Answer(r, "nonzero")
          /\ Then(r, "up_put", "")
          /\ UNCHANGED <<root, dir>>
       \/ /\ Answer(r, "raise")
          /\ Thrown(r, "ExecError")
          /\ UNCHANGED <<root, dir>>
    /\ UNCHANGED <<proj, config, pulls, stamp, absorbed, cleaned, bdir,
                   archives, created, tmp, now, deploys>>

\* deployFromUpload, lines 136-148: ssh.putFile answered; the extraction
\* command chosen by the file's lower-cased extension is issued.
UploadPut(r) ==
    /\ At(r, "up_put")
    /\ \/ /\ Answer(r, "ok")
          /\ tmp' = tmp \cup {proj[r].ext}
          /\ Then(r, "up_extract", Extractor(ToLowerCase(proj[r].ext)))
       \/ /\ Answer(r, "raise")
          /\ Thrown(r, "TransferError")
          /\ UNCHANGED tmp
    /\ UNCHANGED <<proj, config, pulls, stamp, absorbed, cleaned, root, dir,
                   bdir, archives, created, now, deploys>>

\* UploadExtract with the exit code of the extraction checked.
UploadExtract_Checked(r) ==
    /\ At(r, "up_extract")
    /\ \/ /\ Answer(r, "ok")
          /\ Then(r, "up_rm", "")
       \/ /\ Answer(r, "nonzero")
          /\ Thrown(r, "ExecError")
       \/ /\ Answer(r, "raise")
          /\ Thrown(r, "ExecError")
    /\ UNCHANGED <<proj, config, pulls, stamp, absorbed, cleaned, hostVars,
                   deploys>>

\* UploadExtract with the staged file removed only after an extraction that
\* exited 0.
UploadExtract_KeepOnFailure(r) ==
    /\ At(r, "up_extract")
    /\ \/ /\ Answer(r, "ok")
          /\ Then(r, "up_rm", "")
       \/ /\ Answer(r, "nonzero")
          /\ StartBuild(r)
       \/ /\ Answer(r, "raise")
          /\ Thrown(r, "ExecError")
    /\ UNCHANGED <<proj, config, pulls, stamp, absorbed, cleaned, hostVars,
                   deploys>>

\* deployFromUpload, lines 141-151: the extraction answered (unchecked), the
\* removal of the staged file issued.
UploadExtract(r) ==
    /\ At(r, "up_extract")
    /\ \/ /\ \E code \in {"ok", "nonzero"} : Answer(r, code)
          /\ Then(r, "up_rm", "")
       \/ /\ Answer(r, "raise")
          /\ Thrown(r, "ExecError")
    /\ UNCHANGED <<proj, config, pulls, stamp, absorbed, cleaned, hostVars,
                   deploys>>

\* deployFromUpload, lines 151-153: rm answered (unchecked).
UploadRm(r) ==
    /\ At(r, "up_rm")
    /\ \/ /\ Answer(r, "ok")
          /\ tmp' = tmp \ {proj[r].ext}
          /\ StartBuild(r)
       \/ /\ Answer(r, "nonzero")
          /\ StartBuild(r)
          /\ UNCHANGED tmp
       \/ /\ Answer(r, "raise")
          /\ Thrown(r, "ExecError")
          /\ UNCHANGED tmp
    /\ UNCHANGED <<proj, config, pulls, stamp, absorbed, cleaned, root, dir,
                   bdir, archives, created, now, deploys>>

\* executeProjectTypeCommands, lines 164-167: npm install answered
\* (unchecked), `which pm2` issued.
NodeInstall(r) ==
    /\ At(r, "node_install")
    /\ \/ /\ \E code \in {"ok", "nonzero"} : Answer(r, code)
          /\ Then(r, "node_which", "")
       \/ /\ Answer(r, "raise")
          /\ Thrown(r, "ExecError")
    /\ UNCHANGED <<proj, config, pulls, stamp, absorbed, cleaned, hostVars,
                   deploys>>

\* NodeWhich with the pm2 command issued whatever `which pm2` answered.
NodeWhich_Unprobed(r) ==
    /\ At(r, "node_which")
    /\ \/ /\ \E code \in {"ok", "nonzero"} : Answer(r, code)
          /\ Then(r, "node_pm2", "")
       \/ /\ Answer(r, "raise")
          /\ Thrown(r, "ExecError")
    /\ UNCHANGED <<proj, config, pulls, stamp, absorbed, cleaned, hostVars,
                   deploys>>

\* executeProjectTypeCommands, lines 167-174 and 204: `which pm2` answered;
\* exit code 0 issues the pm2 command, any other goes on to chmod.
NodeWhich(r) ==
    /\ At(r, "node_which")
    /\ \/ /\ Answer(r, "ok")
          /\ Then(r, "node_pm2", "")
       \/ /\ Answer(r, "nonzero")
          /\ Then(r, "chmod", "")
       \/ /\ Answer(r, "raise")
          /\ Thrown(r, "ExecError")
    /\ UNCHANGED <<proj, config, pulls, stamp, absorbed, cleaned, hostVars,
                   deploys>>

\* NodePm2 with a non-zero exit code of the pm2 command thrown.
NodePm2_Checked(r) ==
    /\ At(r, "node_pm2")
    /\ \/ /\ Answer(r, "ok")
          /\ Then(r, "chmod", "")
       \/ /\ \E code \in {"nonzero", "raise"} : Answer(r, code)
          /\ Thrown(r, "ExecError")
    /\ UNCHANGED <<proj, config, pulls, stamp, absorbed, cleaned, hostVars,
                   deploys>>

\* executeProjectTypeCommands, lines 169-174 and 204: pm2 answered
\* (unchecked), chmod issued.
NodePm2(r) ==
    /\ At(r, "node_pm2")
    /\ \/ /\ \E code \in {"ok", "nonzero"} : Answer(r, code)
          /\ Then(r, "chmod", "")
       \/ /\ Answer(r, "raise")
          /\ Thrown(r, "ExecError")
    /\ UNCHANGED <<proj, config, pulls, stamp, absorbed, cleaned, hostVars,
                   deploys>>

\* executeProjectTypeCommands, lines 178-183 and 204: `test -f composer.json
\* && echo "exists"` answered: "exists" with exit code 0, nothing otherwise.
PhpCheck(r) ==
    /\ At(r, "php_check")
    /\ \/ /\ Answer(r, "ok")
          /\ Then(r, "php_composer", "")
       \/ /\ Answer(r, "nonzero")
          /\ Then(r, "chmod", "")
       \/ /\ Answer(r, "raise")
          /\ Thrown(r, "ExecError")
    /\ UNCHANGED <<proj, config, pulls, stamp, absorbed, cleaned, hostVars,
                   deploys>>

\* executeProjectTypeCommands, lines 180-183 and 204: composer answered
\* (unchecked), chmod issued.
PhpComposer(r) ==
    /\ At(r, "php_composer")
    /\ \/ /\ \E code \in {"ok", "nonzero"} : Answer(r, code)
          /\ Then(r, "chmod", "")
       \/ /\ Answer(r, "raise")
          /\ Thrown(r, "ExecError")
    /\ UNCHANGED <<proj, config, pulls, stamp, absorbed, cleaned, hostVars,
                   deploys>>

\* executeProjectTypeCommands, lines 187-192 and 204: `test -f
\* requirements.txt && echo "exists"` answered.
PyCheck(r) ==
    /\ At(r, "py_check")
    /\ \/ /\ Answer(r, "ok")
          /\ Then(r, "py_pip", "")
       \/ /\ Answer(r, "nonzero")
          /\ Then(r, "chmod", "")
       \/ /\ Answer(r, "raise")
          /\ Thrown(r, "ExecError")
    /\ UNCHANGED <<proj, config, pulls, stamp, absorbed, cleaned, hostVars,
                   deploys>>

\* executeProjectTypeCommands, lines 189-192 and 204: pip3 answered
\* (unchecked), chmod issued.
PyPip(r) ==
    /\ At(r, "py_pip")
    /\ \/ /\ \E code \in {"ok", "nonzero"} : Answer(r, code)
          /\ Then(r, "chmod", "")
       \/ /\ Answer(r, "raise")
          /\ Thrown(r, "ExecError")
    /\ UNCHANGED <<proj, config, pulls, stamp, absorbed, cleaned, hostVars,
                   deploys>>

\* executeProjectTypeCommands, line 204, and deploy, lines 29-37: chmod
\* answered (unchecked); the custom commands, or the return.
Chmod(r) ==
    /\ At(r, "chmod")
    /\ \/ /\ \E code \in {"ok", "nonzero"} : Answer(r, code)
          /\ StartCustom(r)
       \/ /\ Answer(r, "raise")
          /\ Thrown(r, "ExecError")
    /\ UNCHANGED <<proj, config, pulls, stamp, absorbed, cleaned, hostVars,
                   deploys>>

\* Custom with a non-zero exit code of a custom command thrown.
Custom_Strict(r) ==
    /\ At(r, "custom")
    /\ \/ /\ Answer(r, "ok")
          /\ \/ /\ ci[r] < Len(Commands(proj[r].custom_commands))
                /\ Call(r, "custom",
                        Commands(proj[r].custom_commands)[ci[r] + 1])
                /\ ci' = [ci EXCEPT ![r] = @ + 1]
                /\ UNCHANGED sess
             \/ /\ ci[r] >= Len(Commands(proj[r].custom_commands))
                /\ Returned(r)
       \/ /\ \E code \in {"nonzero", "raise"} : Answer(r, code)
          /\ Thrown(r, "ExecError")
    /\ UNCHANGED <<proj, config, pulls, stamp, absorbed, cleaned, hostVars,
                   deploys>>

\* executeCustomCommands, lines 213-222, and deploy, lines 34-37: a custom
\* command answered; its exit code is only logged.
Custom(r) ==
    /\ At(r, "custom")
    /\ \/ /\ \E code \in {"ok", "nonzero"} : Answer(r, code)
          /\ \/ /\ ci[r] < Len(Commands(proj[r].custom_commands))
                /\ Call(r, "custom",
                        Commands(proj[r].custom_commands)[ci[r] + 1])
                /\ ci' = [ci EXCEPT ![r] = @ + 1]
                /\ UNCHANGED sess
             \/ /\ ci[r] >= Len(Commands(proj[r].custom_commands))
                /\ Returned(r)
       \/ /\ Answer(r, "raise")
          /\ Thrown(r, "ExecError")
    /\ UNCHANGED <<proj, config, pulls, stamp, absorbed, cleaned, hostVars,
                   deploys>>

\* ------------------------------------------- router.post('/:id/deploy')
\* The handler of a deploy request owns run r from its findByPk to the
\* update made by the callback it chained on deploy().
RouteFree(r) == rt[r] \in {"none", "noted"}

\* One update of the project's row: the status written, and whether
\* last_deployment is written with it.
Write(st, stamped) == [status |-> st, stamped |-> stamped]

\* router.post('/:id/deploy'), lines 297-319: the project is loaded with its
\* server and the update to 'deploying' is awaited.  A request for a project
\* that is not found, or whose server is offline, is answered 404 / 400 and
\* changes nothing.  `limit` bounds the requests in progress at once, `cap`
\* the requests of a behaviour.
DeployRequest(r, projects, limit, cap) ==
    /\ RouteFree(r)
    /\ \A q \in Runs : q < r => ~RouteFree(q)
    /\ Cardinality({ q \in Runs : ~RouteFree(q) }) < limit
    /\ deploys + Cardinality({ q \in Runs : rt[q] = "marking" }) < cap
    /\ \E p \in projects : rproj' = [rproj EXCEPT ![r] = p]
    /\ rt' = [rt EXCEPT ![r] = "marking"]
    /\ writes' = [writes EXCEPT ![r] = <<>>]
    /\ UNCHANGED <<status, last_deployment, runVars, hostVars, deploys>>

\* lines 319-337: 'deploying' is written, deploy(project) is called and runs
\* to its first await, the callbacks are chained and the response is sent.
DeployMarked(r) ==
    /\ rt[r] = "marking"
    /\ status' = [status EXCEPT ![rproj[r].name] = "deploying"]
    /\ writes' = [writes EXCEPT ![r] = Append(@, Write("deploying", FALSE))]
    /\ Begin(r, rproj[r])
    /\ rt' = [rt EXCEPT ![r] = "deploying"]
    /\ UNCHANGED <<rproj, last_deployment, hostVars>>

\* DeploySucceeded with the timestamp left out of the update.
DeploySucceeded_Unstamped(r) ==
    /\ rt[r] = "deploying" /\ pc[r] = "done"
    /\ status' = [status EXCEPT ![rproj[r].name] = "active"]
    /\ writes' = [writes EXCEPT ![r] = Append(@, Write("active", FALSE))]
    /\ rt' = [rt EXCEPT ![r] = "noted"]
    /\ UNCHANGED <<rproj, last_deployment, runVars, hostVars, deploys>>

\* lines 323-328: deploy() resolved; the then-callback writes 'active' and
\* last_deployment = new Date() in one update.
DeploySucceeded(r) ==
    /\ rt[r] = "deploying" /\ pc[r] = "done"
    /\ now' = now + 1
    /\ status' = [status EXCEPT ![rproj[r].name] = "active"]
    /\ last_deployment' = [last_deployment EXCEPT ![rproj[r].name] = now + 1]
    /\ writes' = [writes EXCEPT ![r] = Append(@, Write("active", TRUE))]
    /\ rt' = [rt EXCEPT ![r] = "noted"]
    /\ UNCHANGED <<rproj, runVars, root, dir, bdir, archives, created, tmp,
                   deploys>>

\* DeployFailed with no catch-callback chained: the rejection is dropped.
DeployFailed_Dropped(r) ==
    /\ rt[r] = "deploying" /\ pc[r] = "failed"
    /\ rt' = [rt EXCEPT ![r] = "noted"]
    /\ UNCHANGED <<rproj, status, last_deployment, writes, runVars, hostVars,
                   deploys>>

\* lines 329-332: deploy() rejected; the catch-callback writes 'error'.
DeployFailed(r) ==
    /\ rt[r] = "deploying" /\ pc[r] = "failed"
    /\ status' = [status EXCEPT ![rproj[r].name] = "error"]
    /\ writes' = [writes EXCEPT ![r] = Append(@, Write("error", FALSE))]
    /\ rt' = [rt EXCEPT ![r] = "noted"]
    /\ UNCHANGED <<rproj, last_deployment, runVars, hostVars, deploys>>

\* ------------------------------------------------------ routes/servers.js
\* !v: undefined, null and the empty string are falsy.
Falsy(v) == v \in {Null, ""}

\* a || b
Or(a, b) == IF Falsy(a) THEN b ELSE a

\* The row Server.create inserts (lines 88-99).
ServerRow(body) ==
    [ssh_password |-> body.ssh_password,
     ssh_private_key |-> body.ssh_private_key,
     status |-> "offline"]

\* ServerPatch with the fields of the request written as they come.
ServerPatch_Overwrite(body, server) ==
    [ssh_password |-> body.ssh_password,
     ssh_private_key |-> body.ssh_private_key]

\* router.put('/:id'), lines 144-145: the credentials given to server.update.
ServerPatch(body, server) ==
    [ssh_password |-> Or(body.ssh_password, server.ssh_password),
     ssh_private_key |-> Or(body.ssh_private_key, server.ssh_private_key)]

\* UPDATE ... WHERE id = i: the fields are written if the row is still there.
Updated(table, i, fields) ==
    IF table[i] = NoRow THEN table
    ELSE [table EXCEPT
            ![i] = [f \in DOMAIN @ |->
                        IF f \in DOMAIN fields THEN fields[f] ELSE @[f]]]

\* A slot whose handler has answered, or whose handler ended on an exception
\* nothing caught, takes the next request.
Free(k) == h[k].at \in {"idle", "sent", "rejected"}

\* A request is taken by slot k.  `limit` bounds the requests in progress at
\* once, `cap` the requests of a behaviour.
Accept(k, limit, cap) ==
    /\ Free(k)
    /\ \A q \in Runs : q < k => ~Free(q)
    /\ Cardinality({ q \in Runs : ~Free(q) }) < limit
    /\ requests < cap
    /\ requests' = requests + 1

\* The handler in slot k runs `op` and is at the awaited call `at`.
In(k, op, at) == h[k].op = op /\ h[k].at = at

\* res.status(code).json(...)
Send(k, code) == h' = [h EXCEPT ![k].at = "sent", ![k].code = code]

\* router.post('/'), lines 59-99: a request without a credential is answered
\* 400; otherwise Server.create is awaited.  (A request without name, address
\* or user name is answered 400 and changes nothing.)
CreateServer(k, bodies, limit, cap) ==
    /\ Accept(k, limit, cap)
    /\ serial.servers
         + Cardinality({ q \in Runs : In(q, "createServer", "create") })
         < MaxServers
    /\ \E body \in bodies :
        h' = [h EXCEPT ![k] =
                IF Falsy(body.ssh_password) /\ Falsy(body.ssh_private_key)
                THEN [op |-> "createServer", at |-> "sent", code |-> 400,
                      body |-> body]
                ELSE [op |-> "createServer", at |-> "create", code |-> 0,
                      body |-> body]]
    /\ UNCHANGED <<serverRows, projectRows, serial, deployVars>>

\* lines 88-112: the row is inserted and 201 is sent, or the insert rejects
\* and the catch block sends 500.
ServerCreated(k) ==
    /\ In(k, "createServer", "create")
    /\ \/ /\ serverRows' =
                [serverRows EXCEPT
                    ![serial.servers + 1] = ServerRow(h[k].body)]
          /\ serial' = [serial EXCEPT !.servers = @ + 1]
          /\ Send(k, 201)
       \/ /\ Send(k, 500)
          /\ UNCHANGED <<serverRows, serial>>
    /\ UNCHANGED <<projectRows, requests, deployVars>>

\* router.put('/:id'), lines 116-118: Server.findByPk is awaited.
UpdateServer(k, bodies, limit, cap) ==
    /\ Accept(k, limit, cap)
    /\ \E id \in ServerIds, body \in bodies :
        h' = [h EXCEPT ![k] =
                [op |-> "updateServer", at |-> "findByPk", code |-> 0,
                 id |-> id, body |-> body, server |-> NoRow]]
    /\ UNCHANGED <<serverRows, projectRows, serial, deployVars>>

\* lines 118-149: no row, 404; a row, server.update is awaited with the
\* credentials of the request or else those just read; a rejected lookup, 500.
UpdateServerFound(k) ==
    /\ In(k, "updateServer", "findByPk")
    /\ \/ /\ serverRows[h[k].id] = NoRow
          /\ Send(k, 404)
       \/ /\ serverRows[h[k].id] # NoRow
          /\ h' = [h EXCEPT ![k].at = "update",
                            ![k].server = serverRows[h[k].id]]
       \/ Send(k, 500)
    /\ UNCHANGED <<serverRows, projectRows, serial, requests, deployVars>>

\* lines 139-162: the update is written and 200 is sent, or it rejects and the
\* catch block sends 500.
UpdateServerSaved(k) ==
    /\ In(k, "updateServer", "update")
    /\ \/ /\ serverRows' = Updated(serverRows, h[k].id,
                                ServerPatch(h[k].body, h[k].server))
          /\ Send(k, 200)
       \/ /\ Send(k, 500)
          /\ UNCHANGED serverRows
    /\ UNCHANGED <<projectRows, serial, requests, deployVars>>

\* router.post('/:id/test'), line 240 and lines 262-264: ssh.dispose().
Disposed(req) == [req EXCEPT !.ssh = "closed", !.disposals = @ + 1]

\* lines 250-254: the catch block is entered and awaits its own lookup.
Caught(k) == h' = [h EXCEPT ![k].at = "catch findByPk"]

\* An exception leaves the catch block: the handler's promise rejects with
\* the rest of the block not run and no response sent.
Escaped(k) == h' = [h EXCEPT ![k].at = "rejected"]

\* router.post('/:id/test'), lines 202-206: a new session object, and
\* Server.findByPk is awaited.
TestServer(k, limit, cap) ==
    /\ Accept(k, limit, cap)
    /\ \E id \in ServerIds :
        h' = [h EXCEPT ![k] =
                [op |-> "testServer", at |-> "findByPk", code |-> 0,
                 id |-> id, server |-> NoRow, ssh |-> "new",
                 disposals |-> 0, connected |-> FALSE]]
    /\ UNCHANGED <<serverRows, projectRows, serial, deployVars>>

\* lines 206-229: no row, 404 is returned from the try block; a row,
\* ssh.connect is awaited; a rejected lookup, the catch block.
TestFound(k) ==
    /\ In(k, "testServer", "findByPk")
    /\ \/ /\ serverRows[h[k].id] = NoRow
          /\ Send(k, 404)
       \/ /\ serverRows[h[k].id] # NoRow
          /\ h' = [h EXCEPT ![k].at = "connect",
                            ![k].server = serverRows[h[k].id]]
       \/ Caught(k)
    /\ UNCHANGED <<serverRows, projectRows, serial, requests, deployVars>>

\* lines 229-232: the session is open and the command is awaited, or
\* ssh.connect rejects.
TestConnected(k) ==
    /\ In(k, "testServer", "connect")
    /\ \/ h' = [h EXCEPT ![k].at = "execCommand", ![k].ssh = "open",
                         ![k].connected = TRUE]
       \/ Caught(k)
    /\ UNCHANGED <<serverRows, projectRows, serial, requests, deployVars>>

\* lines 232-238: the command has answered, with whatever exit code, and the
\* update to 'online' is awaited; or ssh.execCommand rejects.
TestExecuted(k) ==
    /\ In(k, "testServer", "execCommand")
    /\ \/ h' = [h EXCEPT ![k].at = "update"]
       \/ Caught(k)
    /\ UNCHANGED <<serverRows, projectRows, serial, requests, deployVars>>

\* lines 235-249: 'online' is written, the session is disposed and the
\* answer is sent; or the update rejects.
TestSaved(k) ==
    /\ In(k, "testServer", "update")
    /\ \/ /\ serverRows' =
                Updated(serverRows, h[k].id, [status |-> "online"])
          /\ h' = [h EXCEPT ![k] = [Disposed(@) EXCEPT !.at = "sent",
                                                       !.code = 200]]
       \/ /\ Caught(k)
          /\ UNCHANGED serverRows
    /\ UNCHANGED <<projectRows, serial, requests, deployVars>>

\* lines 254-269: the catch block's lookup has answered: a row, its update to
\* 'error' is awaited; no row, the session is disposed and 500 is sent.  A
\* rejected lookup leaves the catch block.
TestCatchFound(k) ==
    /\ In(k, "testServer", "catch findByPk")
    /\ \/ /\ serverRows[h[k].id] # NoRow
          /\ h' = [h EXCEPT ![k].at = "catch update"]
       \/ /\ serverRows[h[k].id] = NoRow
          /\ h' = [h EXCEPT ![k] = [Disposed(@) EXCEPT !.at = "sent",
                                                       !.code = 500]]
       \/ Escaped(k)
    /\ UNCHANGED <<serverRows, projectRows, serial, requests, deployVars>>

\* lines 256-269: 'error' is written, the session is disposed and 500 is
\* sent.  A rejected update leaves the catch block.
TestCatchSaved(k) ==
    /\ In(k, "testServer", "catch update")
    /\ \/ /\ serverRows' = Updated(serverRows, h[k].id, [status |-> "error"])
          /\ h' = [h EXCEPT ![k] = [Disposed(@) EXCEPT !.at = "sent",
                                                       !.code = 500]]
       \/ /\ Escaped(k)
          /\ UNCHANGED serverRows
    /\ UNCHANGED <<projectRows, serial, requests, deployVars>>

\* ----------------------------------------- routes/projects.js, the records
\* The bodies of project create requests: source_type is one of the column's
\* two values, source_url is left out, empty or given.  (A request without
\* name, project_type, source_type or server_id is answered 400.)
ProjectBodies ==
    [source_type : SourceTypes, source_url : {Null, "", "url"},
     server_id : ServerIds]

\* The row Project.create inserts for POST / (lines 136-146): source_path is
\* not among the values.
ProjectRow(body) ==
    [source_type |-> body.source_type, source_url |-> body.source_url,
     source_path |-> Null, server_id |-> body.server_id]

\* The row Project.create inserts for POST /upload (lines 190-200):
\* source_url is not among the values.
UploadRow(body) ==
    [source_type |-> "upload", source_url |-> Null, source_path |-> "file",
     server_id |-> body.server_id]

\* router.put('/:id'), line 240: the source_url given to project.update.
ProjectPatch(body, project) ==
    [source_url |-> Or(body.source_url, project.source_url)]

\* The rows of table projects whose server_id is i.
Referencing(i) ==
    { j \in ProjectIds :
        projectRows[j] # NoRow /\ projectRows[j].server_id = i }

\* server.countProjects()
CountProjects(i) == Cardinality(Referencing(i))

\* Deletable without the reference of projects.server_id to servers.id.
Deletable_Unreferenced(i) == TRUE

\* Project.js, lines 61-68 and 75-76: projects.server_id references
\* servers.id and is not nullable, so the database rejects the delete of a
\* server row that a project row references.
Deletable(i) == Referencing(i) = {}

\* The same reference: the database rejects the insert of a project row whose
\* server_id is the id of no server row.
Insertable(row) == serverRows[row.server_id] # NoRow

\* router.post('/'), lines 99-128: a github request without source_url is
\* answered 400; otherwise Server.findByPk is awaited.
CreateProject(k, limit, cap) ==
    /\ Accept(k, limit, cap)
    /\ serial.projects
         + Cardinality({ q \in Runs :
                 h[q].op \in {"createProject", "uploadProject"}
                     /\ h[q].at \in {"findByPk", "create"} })
         < MaxProjects
    /\ \E body \in ProjectBodies :
        h' = [h EXCEPT ![k] =
                IF body.source_type = "github" /\ Falsy(body.source_url)
                THEN [op |-> "createProject", at |-> "sent", code |-> 400,
                      body |-> body, row |-> NoRow]
                ELSE [op |-> "createProject", at |-> "findByPk", code |-> 0,
                      body |-> body, row |-> ProjectRow(body)]]
    /\ UNCHANGED <<serverRows, projectRows, serial, deployVars>>

\* router.post('/upload'), lines 163-182: a request without a file is answered
\* 400; otherwise Server.findByPk is awaited.
UploadProject(k, limit, cap) ==
    /\ Accept(k, limit, cap)
    /\ serial.projects
         + Cardinality({ q \in Runs :
                 h[q].op \in {"createProject", "uploadProject"}
                     /\ h[q].at \in {"findByPk", "create"} })
         < MaxProjects
    /\ \E file \in BOOLEAN, id \in ServerIds :
        h' = [h EXCEPT ![k] =
                IF ~file
                THEN [op |-> "uploadProject", at |-> "sent", code |-> 400,
                      body |-> [server_id |-> id], row |-> NoRow]
                ELSE [op |-> "uploadProject", at |-> "findByPk", code |-> 0,
                      body |-> [server_id |-> id],
                      row |-> UploadRow([server_id |-> id])]]
    /\ UNCHANGED <<serverRows, projectRows, serial, deployVars>>

\* lines 128-146 and 182-200: no server row, 404; a row, Project.create is
\* awaited; a rejected lookup, 500.
ProjectServerFound(k) ==
    /\ h[k].op \in {"createProject", "uploadProject"}
    /\ h[k].at = "findByPk"
    /\ \/ /\ serverRows[h[k].body.server_id] = NoRow
          /\ Send(k, 404)
       \/ /\ serverRows[h[k].body.server_id] # NoRow
          /\ h' = [h EXCEPT ![k].at = "create"]
       \/ Send(k, 500)
    /\ UNCHANGED <<serverRows, projectRows, serial, requests, deployVars>>

\* lines 136-159 and 190-213: the row is inserted and 201 is sent, or the
\* insert rejects and the catch block sends 500.
ProjectCreated(k) ==
    /\ h[k].op \in {"createProject", "uploadProject"}
    /\ h[k].at = "create"
    /\ \/ /\ Insertable(h[k].row)
          /\ projectRows' =
                [projectRows EXCEPT ![serial.projects + 1] = h[k].row]
          /\ serial' = [serial EXCEPT !.projects = @ + 1]
          /\ Send(k, 201)
       \/ /\ Send(k, 500)
          /\ UNCHANGED <<projectRows, serial>>
    /\ UNCHANGED <<serverRows, requests, deployVars>>

\* router.put('/:id'), lines 217-219: Project.findByPk is awaited.
UpdateProject(k, limit, cap) ==
    /\ Accept(k, limit, cap)
    /\ \E id \in ProjectIds, url \in {Null, "", "url"} :
        h' = [h EXCEPT ![k] =
                [op |-> "updateProject", at |-> "findByPk", code |-> 0,
                 id |-> id, body |-> [source_url |-> url],
                 project |-> NoRow]]
    /\ UNCHANGED <<serverRows, projectRows, serial, deployVars>>

\* lines 219-244: no row, 404; a row, project.update is awaited with the
\* source_url of the request or else the one just read; a rejected lookup,
\* 500.
UpdateProjectFound(k) ==
    /\ In(k, "updateProject", "findByPk")
    /\ \/ /\ projectRows[h[k].id] = NoRow
          /\ Send(k, 404)
       \/ /\ projectRows[h[k].id] # NoRow
          /\ h' = [h EXCEPT ![k].at = "update",
                            ![k].project = projectRows[h[k].id]]
       \/ Send(k, 500)
    /\ UNCHANGED <<serverRows, projectRows, serial, requests, deployVars>>

\* lines 237-257: the update is written and 200 is sent, or it rejects and
\* the catch block sends 500.
UpdateProjectSaved(k) ==
    /\ In(k, "updateProject", "update")
    /\ \/ /\ projectRows' = Updated(projectRows, h[k].id,
                                    ProjectPatch(h[k].body, h[k].project))
          /\ Send(k, 200)
       \/ /\ Send(k, 500)
          /\ UNCHANGED projectRows
    /\ UNCHANGED <<serverRows, serial, requests, deployVars>>

\* routes/servers.js, router.delete('/:id'), lines 166-168: Server.findByPk is
\* awaited.
DeleteServer(k, limit, cap) ==
    /\ Accept(k, limit, cap)
    /\ \E id \in ServerIds :
        h' = [h EXCEPT ![k] =
                [op |-> "deleteServer", at |-> "findByPk", code |-> 0,
                 id |-> id]]
    /\ UNCHANGED <<serverRows, projectRows, serial, deployVars>>

\* lines 168-178: no row, 404; a row, server.countProjects() is awaited; a
\* rejected lookup, 500.
DeleteServerFound(k) ==
    /\ In(k, "deleteServer", "findByPk")
    /\ \/ /\ serverRows[h[k].id] = NoRow
          /\ Send(k, 404)
       \/ /\ serverRows[h[k].id] # NoRow
          /\ h' = [h EXCEPT ![k].at = "countProjects"]
       \/ Send(k, 500)
    /\ UNCHANGED <<serverRows, projectRows, serial, requests, deployVars>>

\* lines 178-186: a server with projects, 400; one without, server.destroy()
\* is awaited; a rejected count, 500.
DeleteServerCounted(k) ==
    /\ In(k, "deleteServer", "countProjects")
    /\ \/ /\ CountProjects(h[k].id) > 0
          /\ Send(k, 400)
       \/ /\ CountProjects(h[k].id) = 0
          /\ h' = [h EXCEPT ![k].at = "destroy"]
       \/ Send(k, 500)
    /\ UNCHANGED <<serverRows, projectRows, serial, requests, deployVars>>

\* lines 186-198: the row is deleted and 200 is sent, or the delete rejects
\* and the catch block sends 500.
DeleteServerDestroyed(k) ==
    /\ In(k, "deleteServer", "destroy")
    /\ \/ /\ Deletable(h[k].id)
          /\ serverRows' = [serverRows EXCEPT ![h[k].id] = NoRow]
          /\ Send(k, 200)
       \/ /\ Send(k, 500)
          /\ UNCHANGED serverRows
    /\ UNCHANGED <<projectRows, serial, requests, deployVars>>

\* ------------------------------------------------------ the specifications
Backup(r) ==
    BackupProbe(r) \/ BackupMkdir(r) \/ BackupTar(r) \/ BackupClean(r)

GitHub(r) == GitProbe(r) \/ GitPull(r) \/ GitMkroot(r) \/ GitClone(r)

Upload(r) == UploadMkdir(r) \/ UploadPut(r) \/ UploadExtract(r) \/ UploadRm(r)

Build(r) ==
    \/ NodeInstall(r) \/ NodeWhich(r) \/ NodePm2(r)
    \/ PhpCheck(r) \/ PhpComposer(r)
    \/ PyCheck(r) \/ PyPip(r)

\* Deployments of every kind of project, one at a time.
Next ==
    /\ \E r \in Runs :
        \/ StartDeploy(r, Projects, 1, MaxDeploys)
        \/ Connect(r) \/ Backup(r) \/ GitHub(r) \/ Upload(r) \/ Build(r)
        \/ Chmod(r) \/ Custom(r)
    /\ UNCHANGED <<routeVars, apiVars>>

Spec == Init /\ [][Next]_vars

\* Repeated deployments of the two static github projects, one at a time:
\* enough of them for the retention command to have something to delete.
NextRetention ==
    /\ \E r \in Runs :
        \/ StartDeploy(r, RetentionProjects, 1, MaxRetentionDeploys)
        \/ Connect(r) \/ Backup(r) \/ GitHub(r) \/ Chmod(r)
    /\ UNCHANGED <<routeVars, apiVars>>

SpecRetention == Init /\ [][NextRetention]_vars

\* The projects of deploy requests in SpecRoute: two rows, of different names.
RouteProjects ==
    { Project(NameA, "static", "github", "", NoText, PwServer),
      Project(NameAB, "static", "github", "", <<"A">>, PwServer) }

\* The steps of deploy() in a run started by a deploy request.
RouteEngine(r) ==
    /\ Connect(r) \/ Backup(r) \/ GitHub(r) \/ Chmod(r) \/ Custom(r)
    /\ UNCHANGED routeVars

\* Deploy requests for the two projects, up to NumRuns of them in progress at
\* once, each with its deploy() run and its callbacks.
NextRoute ==
    /\ \E r \in Runs :
        \/ DeployRequest(r, RouteProjects, NumRuns, MaxRouteDeploys)
        \/ DeployMarked(r)
        \/ RouteEngine(r)
        \/ DeploySucceeded(r) \/ DeployFailed(r)
    /\ UNCHANGED apiVars

SpecRoute == Init /\ [][NextRoute]_vars

\* The steps of deploy(), for every kind of project.
Engine(r) ==
    /\ \/ Connect(r) \/ Backup(r) \/ GitHub(r) \/ Upload(r) \/ Build(r)
       \/ Chmod(r) \/ Custom(r)
    /\ UNCHANGED routeVars

\* What follows a deploy request without a further request: the awaited
\* update, the answers of the remote calls, the callbacks.
Progress(r) ==
    /\ DeployMarked(r) \/ Engine(r) \/ DeploySucceeded(r) \/ DeployFailed(r)
    /\ UNCHANGED apiVars

\* The projects of deploy requests in SpecLive: both source types, the three
\* project types with commands of their own, with and without custom commands.
LiveProjects ==
    { Project(NameA, "nodejs", "github", "", NoText, PwServer),
      Project(NameA, "php", "upload", ".zip", <<"A", "B">>, PwServer),
      Project(NameA, "python", "github", "", NoText, PwServer) }

\* Deploy requests for these projects, one at a time.
NextLive ==
    \E r \in Runs :
        \/ DeployRequest(r, LiveProjects, 1, MaxDeploys) /\ UNCHANGED apiVars
        \/ Progress(r)

\* Every awaited update and remote call is answered, and the event loop runs
\* the continuation of every answered call.
SpecLive ==
    Init /\ [][NextLive]_vars /\ \A r \in Runs : WF_vars(Progress(r))

\* Server create and update requests, two of them in progress at once.
NextCredentials ==
    \E k \in Runs :
        \/ CreateServer(k, Credentials, 2, MaxRequests)
        \/ ServerCreated(k)
        \/ UpdateServer(k, Credentials, 2, MaxRequests)
        \/ UpdateServerFound(k)
        \/ UpdateServerSaved(k)

SpecCredentials == Init /\ [][NextCredentials]_vars

\* The request body of the server that SpecTest creates.
PasswordOnly == { [ssh_password |-> "pw", ssh_private_key |-> Null] }

\* Server create and test-connection requests, two of them in progress at
\* once.
NextTest ==
    \E k \in Runs :
        \/ CreateServer(k, PasswordOnly, 2, MaxRequests)
        \/ ServerCreated(k)
        \/ TestServer(k, 2, MaxRequests)
        \/ TestFound(k) \/ TestConnected(k) \/ TestExecuted(k)
        \/ TestSaved(k)
        \/ TestCatchFound(k) \/ TestCatchSaved(k)

SpecTest == Init /\ [][NextTest]_vars

\* Server create and delete requests and project create, upload and update
\* requests, two of them in progress at once.
NextProjects ==
    \E k \in Runs :
        \/ CreateServer(k, PasswordOnly, 2, MaxRequests)
        \/ ServerCreated(k)
        \/ DeleteServer(k, 2, MaxRequests)
        \/ DeleteServerFound(k) \/ DeleteServerCounted(k)
        \/ DeleteServerDestroyed(k)
        \/ CreateProject(k, 2, MaxRequests)
        \/ UploadProject(k, 2, MaxRequests)
        \/ ProjectServerFound(k) \/ ProjectCreated(k)
        \/ UpdateProject(k, 2, MaxRequests)
        \/ UpdateProjectFound(k) \/ UpdateProjectSaved(k)

SpecProjects == Init /\ [][NextProjects]_vars

\* ------------------------------------------------------------- the claims
BackupSites == {"bk_probe", "bk_mkdir", "bk_tar", "bk_clean"}
GitSites == {"gh_probe", "gh_pull", "gh_mkroot", "gh_clone"}
UploadSites == {"up_mkdir", "up_put", "up_extract", "up_rm"}
TypeSites ==
    {"node_install", "node_which", "node_pm2", "php_check", "php_composer",
     "py_check", "py_pip"}
BuildSites == TypeSites \cup {"chmod"}

\* The step of deploy() a call site belongs to: connect, backup, source
\* acquisition, build, custom commands.
Phase(site) ==
    CASE site = "connect" -> 1
      [] site \in BackupSites -> 2
      [] site \in GitSites \cup UploadSites -> 3
      [] site \in BuildSites -> 4
      [] site = "custom" -> 5

Ended(r) == pc[r] \in {"done", "failed"}
Running(r) == pc[r] \notin {"idle", "done", "failed"}
Sites(r) == { log[r][i][1] : i \in DOMAIN log[r] }

\* C1: a deploy() that has ended, by returning true or by raising, has called
\* ssh.dispose() exactly once and its session is released; a deploy() still
\* running has not called it.
C1_DisposedExactlyOnce ==
    \A r \in Runs :
        /\ Ended(r) => disposals[r] = 1 /\ sess[r] = "closed"
        /\ Running(r) => disposals[r] = 0

\* A deploy() that raised on a source error, with its one dispose.
C1_Witness ==
    \E r \in Runs :
        /\ pc[r] = "failed" /\ disposals[r] = 1
        /\ result[r] = "SourceError"

\* C2: the calls of a run are issued in the order connect, backup, source,
\* build, custom commands; at most one call of a run is unanswered; a command
\* is in flight only on a connected, unreleased session; the session is
\* released only by the step that ends the run, with nothing in flight.
C2_StepOrder ==
    \A r \in Runs :
        /\ \A i, j \in DOMAIN log[r] :
               i < j => Phase(log[r][i][1]) <= Phase(log[r][j][1])
        /\ inflight[r] <= 1
        /\ Running(r) => inflight[r] = 1
        /\ pc[r] = "connect" => sess[r] = "new" /\ log[r] = << <<"connect", "">> >>
        /\ Running(r) /\ pc[r] # "connect" => sess[r] = "open"
        /\ Ended(r) => sess[r] = "closed" /\ inflight[r] = 0

\* A run that returned true after calls of all five steps.
C2_Witness ==
    \E r \in Runs :
        /\ pc[r] = "done"
        /\ { Phase(s) : s \in Sites(r) } = 1..5

\* C3: when git pull or git clone exits non-zero the run has raised the
\* source error, its session is released, and no build or custom command was
\* issued in it.
C3_SourceErrorAborts ==
    \A r \in Runs :
        last[r] \in {<<"gh_pull", "nonzero">>, <<"gh_clone", "nonzero">>}
        => /\ pc[r] = "failed"
           /\ result[r] = "SourceError"
           /\ sess[r] = "closed" /\ disposals[r] = 1
           /\ \A s \in Sites(r) : Phase(s) <= 3

\* A pull that exited non-zero.
C3_Witness ==
    \E r \in Runs : last[r] = <<"gh_pull", "nonzero">> /\ pc[r] = "failed"

\* C4: when ssh.connect rejects, deploy() has raised the connection error and
\* issued no remote call but the connect.
C4_ConnectFailure ==
    \A r \in Runs :
        last[r] = <<"connect", "raise">>
        => /\ pc[r] = "failed"
           /\ result[r] = "ConnectionError"
           /\ log[r] = << <<"connect", "">> >>

\* A rejected connect.
C4_Witness ==
    \E r \in Runs : last[r] = <<"connect", "raise">> /\ Ended(r)

\* C5: whatever a call of createBackup answers (exit 0, non-zero, rejected),
\* the run is then still inside the backup or at the first call of the source
\* step, with no error raised; a deploy() that raised did not raise from the
\* backup.
C5_BackupNeverPropagates ==
    \A r \in Runs :
        /\ last[r][1] \in BackupSites
           => /\ pc[r] \in BackupSites \cup {SourceEntry(proj[r])}
              /\ result[r] = Null
        /\ absorbed[r] /\ Running(r) => Phase(pc[r]) >= 3
        /\ pc[r] = "failed" => last[r][1] \notin BackupSites

\* A deploy() that returned true although createBackup caught a rejected
\* call.
C5_Witness ==
    \E r \in Runs : pc[r] = "done" /\ result[r] = "ok" /\ absorbed[r]

BuildStarted(r) == \E s \in Sites(r) : Phase(s) >= 4

\* C6 as stated: once the source step has succeeded (the build has started)
\* the run is never failed, whatever the build and the custom commands
\* answer, a rejected call included.
C6_Original == \A r \in Runs : BuildStarted(r) => pc[r] # "failed"

\* C6, amended: no exit code of a build or custom command fails the run; a
\* run that fails after the source step fails on a rejected execCommand of
\* the build or custom step, and raises that error.
C6_AdvisoryExitCodes ==
    \A r \in Runs :
        /\ last[r][1] \in BuildSites \cup {"custom"}
                /\ last[r][2] \in {"ok", "nonzero"}
           => pc[r] # "failed" /\ result[r] \in {Null, "ok"}
        /\ BuildStarted(r) /\ pc[r] = "failed"
           => /\ last[r][1] \in BuildSites \cup {"custom"}
              /\ last[r][2] = "raise"
              /\ result[r] = "ExecError"

\* A deploy() that returned true after its last custom command exited
\* non-zero.
C6_Witness ==
    \E r \in Runs : pc[r] = "done" /\ last[r] = <<"custom", "nonzero">>

\* C7 as stated: the only errors deploy() raises are the connection error
\* and the source error.
C7_Original ==
    \A r \in Runs :
        pc[r] = "failed" => result[r] \in {"ConnectionError", "SourceError"}

\* C7, amended: deploy() raises exactly on a rejected connect, on a non-zero
\* git pull / clone, and on a rejected execCommand or putFile outside
\* createBackup; a non-zero exit code of any other command and every failure
\* inside createBackup leave the run going.
C7_RaisedErrors ==
    \A r \in Runs :
        /\ pc[r] = "failed"
           => \/ last[r] = <<"connect", "raise">>
                    /\ result[r] = "ConnectionError"
              \/ last[r] \in {<<"gh_pull", "nonzero">>, <<"gh_clone", "nonzero">>}
                    /\ result[r] = "SourceError"
              \/ last[r][2] = "raise" /\ last[r][1] = "up_put"
                    /\ result[r] = "TransferError"
              \/ last[r][2] = "raise"
                    /\ last[r][1] \notin BackupSites \cup {"connect", "up_put"}
                    /\ result[r] = "ExecError"
        /\ last[r][2] = "nonzero" /\ last[r][1] \notin {"gh_pull", "gh_clone"}
           => pc[r] # "failed"
        /\ last[r][2] = "raise" /\ last[r][1] \notin BackupSites
           => pc[r] = "failed"

\* A deploy() that raised because the file transfer was rejected.
C7_Witness ==
    \E r \in Runs :
        pc[r] = "failed" /\ result[r] = "TransferError"
            /\ last[r] = <<"up_put", "raise">>

\* C8: whenever ssh.connect has been called, the configuration carries
\* exactly one credential, the password if the server has one, else the
\* private key; with neither, connect is not called.
C8_OneCredential ==
    \A r \in Runs :
        "connect" \in Sites(r)
        => /\ Cardinality(config[r]) = 1
           /\ proj[r].server.ssh_password => config[r] = {"password"}
           /\ ~proj[r].server.ssh_password => config[r] = {"privateKey"}

\* C9 as stated: after every deployment at most 5 archives match the
\* project's pattern, and no deleted matching archive is newer than a kept one.
C9_Original ==
    \A r \in Runs :
        Ended(r)
        => /\ Cardinality(Matching(proj[r].name, archives)) <= 5
           /\ \A a \in Matching(proj[r].name, created) \ archives :
                \A b \in Matching(proj[r].name, archives) : a.stamp < b.stamp

\* C9, amended: once the retention command of a deployment has exited 0, at
\* most 5 archives match the project's pattern, every matching archive that is
\* gone is older than every one that remains, and the archive this
\* deployment wrote remains.
C9_RetentionAfterClean ==
    \A r \in Runs :
        cleaned[r]
        => /\ Cardinality(Matching(proj[r].name, archives)) <= 5
           /\ \A a \in Matching(proj[r].name, created) \ archives :
                \A b \in Matching(proj[r].name, archives) : a.stamp < b.stamp
           /\ NewArchive(r) \in created => NewArchive(r) \in archives

\* A deployment has ended whose retention command deleted an archive and
\* left 5.
C9_Witness ==
    \E r \in Runs :
        /\ Ended(r) /\ cleaned[r]
        /\ Cardinality(Matching(proj[r].name, created)) > 5
        /\ Cardinality(Matching(proj[r].name, archives)) = 5

IsGithub(r) == proj[r].source_type = "github"
Pulled(r) == "gh_pull" \in Sites(r)
Cloned(r) == "gh_clone" \in Sites(r)
\* The source step of run r was entered and is over.
Acquired(r) == "gh_probe" \in Sites(r) /\ pc[r] \notin GitSites

\* The choice between pull and clone, common to C10 as stated and amended:
\* never both; a pull is in flight only on an existing directory; mkdir -p and
\* clone are in flight only for an absent one, the clone right after the
\* mkdir -p; a pull that exits non-zero fails the run without a clone.
C10_Choice ==
    \A r \in Runs :
        IsGithub(r)
        => /\ ~(Pulled(r) /\ Cloned(r))
           /\ pc[r] = "gh_pull" => dir[proj[r].name] # "absent"
           /\ pc[r] \in {"gh_mkroot", "gh_clone"} => dir[proj[r].name] = "absent"
           /\ \A i \in DOMAIN log[r] :
                log[r][i][1] = "gh_clone" => log[r][i - 1][1] = "gh_mkroot"
           /\ "gh_mkroot" \in Sites(r) => ~Pulled(r)
           /\ last[r] = <<"gh_pull", "nonzero">> => pc[r] = "failed"

\* A directory of the host, once there, stays: later probes find it.
C10_DirectoryStays ==
    [][\A n \in Names : dir[n] # "absent" => dir'[n] # "absent"]_vars

\* C10 as stated: every github acquisition runs exactly one of pull and
\* clone.
C10_Original ==
    \A r \in Runs :
        /\ C10_Choice
        /\ IsGithub(r) /\ Acquired(r) => (Pulled(r) /\ ~Cloned(r)) \/ (Cloned(r) /\ ~Pulled(r))

\* C10, amended: a github acquisition runs at most one of pull and clone,
\* chosen by the probe as stated; it runs neither only when the probe or the
\* mkdir -p call is rejected, which fails the run; and a directory once
\* created stays, so that after a successful clone no later acquisition of
\* that name clones.
C10_PullOrClone ==
    /\ [](C10_Choice
          /\ \A r \in Runs :
                IsGithub(r) /\ Acquired(r) /\ ~Pulled(r) /\ ~Cloned(r)
                => /\ pc[r] = "failed"
                   /\ last[r] \in {<<"gh_probe", "raise">>, <<"gh_mkroot", "raise">>})
    /\ C10_DirectoryStays

\* A github acquisition found a directory that is no checkout, so that its
\* pull exited non-zero, and did not clone.
C10_Witness ==
    \E r \in Runs :
        /\ last[r] = <<"gh_pull", "nonzero">> /\ ~Cloned(r)
        /\ IsGithub(r) /\ dir[proj[r].name] = "plain"

\* The extraction path the dispatch table gives an uploaded file.
ExpectedPath(e) ==
    CASE e \in {".zip", ".ZIP"} -> "unzip"
      [] e \in {".tar", ".gz", ".tgz", ".Tgz"} -> "tar"
      [] OTHER -> "cp"

IsUpload(r) == proj[r].source_type = "upload"
Count(r, site) == Cardinality({ i \in DOMAIN log[r] : log[r][i][1] = site })

\* C11: in upload mode the extraction command is issued right after the
\* transfer has succeeded, at most once in a run and exactly once in a run
\* that went on to the removal of the staged file; it is unzip for .zip, tar
\* for .tar / .gz / .tgz and cp for every other extension or none, the
\* extension compared in lower case.
C11_ExtensionDispatch ==
    \A r \in Runs :
        IsUpload(r)
        => /\ Count(r, "up_extract") <= 1
           /\ \A i \in DOMAIN log[r] :
                log[r][i][1] = "up_extract"
                => /\ log[r][i][2] = ExpectedPath(proj[r].ext)
                   /\ log[r][i - 1][1] = "up_put"
           /\ last[r] = <<"up_put", "ok">> => pc[r] = "up_extract"
           /\ "up_rm" \in Sites(r) => Count(r, "up_extract") = 1

\* An upload of a file named in upper case (.ZIP) was unzipped, and the run
\* returned true.
C11_Witness ==
    \E r \in Runs :
        /\ pc[r] = "done" /\ IsUpload(r) /\ proj[r].ext = ".ZIP"
        /\ \E i \in DOMAIN log[r] : log[r][i] = <<"up_extract", "unzip">>

\* The lines of a custom_commands text that are commands, in their order.
NonBlankLines(text) == SelectSeq(text, LAMBDA l : l \in CommandLines)

\* The custom commands run r has issued, in the order it issued them.
Executed(r) ==
    LET calls == SelectSeq(log[r], LAMBDA e : e[1] = "custom")
    IN  [i \in DOMAIN calls |-> calls[i][2]]

\* C12: the custom commands a run has issued are the first non-blank lines of
\* the field, in the order of the lines and each line once; no blank or
\* white-space line is issued; a custom command that exits 0 or non-zero is
\* followed by the next non-blank line or, after the last one, by the return
\* of deploy() with true; a run that returned true has issued them all.
C12_CustomCommands ==
    \A r \in Runs :
        LET ex == Executed(r)
            want == NonBlankLines(proj[r].custom_commands)
        IN  /\ Len(ex) <= Len(want)
            /\ ex = SubSeq(want, 1, Len(ex))
            /\ \A i \in DOMAIN ex : ex[i] \notin BlankLines
            /\ pc[r] = "done" => ex = want
            /\ last[r][1] = "custom" /\ last[r][2] \in {"ok", "nonzero"}
               => \/ pc[r] = "custom" /\ Len(ex) >= 2 /\ result[r] = Null
                  \/ pc[r] = "done" /\ ex = want /\ result[r] = "ok"

\* Of the lines A, empty, B the command A exited non-zero and B is running.
C12_Witness ==
    \E r \in Runs :
        /\ proj[r].custom_commands = <<"A", "", "B">>
        /\ last[r] = <<"custom", "nonzero">>
        /\ pc[r] = "custom" /\ Executed(r) = <<"A", "B">>

\* C13: in every run, of every project type, chmod is issued at most once and
\* after every type-specific command; a type-specific command that exits 0 or
\* non-zero leaves the run in the build step with no error raised; chmod's own
\* exit code ends the build step without an error; a run that is past the
\* build step has issued chmod exactly once; the types without a branch of
\* their own (static, custom) issue no command but chmod.
C13_PermissionsAlways ==
    \A r \in Runs :
        /\ Count(r, "chmod") <= 1
        /\ \A i, j \in DOMAIN log[r] :
                log[r][i][1] = "chmod" /\ log[r][j][1] \in TypeSites => j < i
        /\ last[r][1] \in TypeSites /\ last[r][2] \in {"ok", "nonzero"}
           => pc[r] \in BuildSites /\ result[r] = Null
        /\ last[r][1] = "chmod" /\ last[r][2] \in {"ok", "nonzero"}
           => pc[r] \in {"custom", "done"}
        /\ pc[r] \in {"custom", "done"} => Count(r, "chmod") = 1
        /\ proj[r].project_type \in {"static", "custom"}
           => Sites(r) \cap TypeSites = {}

\* The pm2 command of a nodejs project exited non-zero and chmod is running.
C13_Witness ==
    \E r \in Runs :
        /\ proj[r].project_type = "nodejs"
        /\ last[r] = <<"node_pm2", "nonzero">> /\ pc[r] = "chmod"

\* The updates a deploy request has made to its project, in order: none
\* before 'deploying' is written; 'deploying' alone while deploy() runs;
\* then 'active' with the timestamp after a deploy() that returned, or
\* 'error' without it after one that raised.
C14_WritesInOrder ==
    \A r \in Runs :
        /\ rt[r] = "marking" => writes[r] = <<>>
        /\ rt[r] = "deploying" => writes[r] = <<Write("deploying", FALSE)>>
        /\ Running(r) => rt[r] = "deploying"
        /\ rt[r] = "noted"
           => \/ /\ pc[r] = "done"
                 /\ writes[r] = <<Write("deploying", FALSE), Write("active", TRUE)>>
              \/ /\ pc[r] = "failed"
                 /\ writes[r] = <<Write("deploying", FALSE), Write("error", FALSE)>>
        /\ \A n \in Names : status[n] = "active" => last_deployment[n] # 0

\* What each update of a deploy request does to the project's row.
C14_WriteEffects ==
    \A r \in Runs :
        LET n == rproj[r].name
        IN  /\ rt[r] = "marking" /\ rt'[r] = "deploying"
               => /\ status'[n] = "deploying"
                  /\ last_deployment' = last_deployment
                  /\ ~Running(r) /\ pc'[r] = "connect"
            /\ rt[r] = "deploying" /\ rt'[r] = "noted" /\ pc[r] = "done"
               => /\ status'[n] = "active"
                  /\ last_deployment'[n] > last_deployment[n]
            /\ rt[r] = "deploying" /\ rt'[r] = "noted" /\ pc[r] = "failed"
               => /\ status'[n] = "error"
                  /\ last_deployment' = last_deployment

C16_RetentionScoped ==
    [][\A a \in archives \ archives' :
          \E r \in Runs : pc[r] = "bk_clean" /\ a.name = proj[r].name]_vars

\* Command c of the pull command line was run / exited 0 in run r.
Ran(r, c) == \E i \in DOMAIN pulls[r] : pulls[r][i][1] = c
Ok(r, c) == \E i \in DOMAIN pulls[r] : pulls[r][i] = <<c, TRUE>>

\* The pull command line of run r has just been answered with an exit code.
PullAnswered(r) == last[r][1] = "gh_pull" /\ last[r][2] # "raise"

\* What C17 says of the clone, as stated and amended: a clone that exits
\* non-zero fails the run, one that exits 0 does not.
C17_Clone ==
    \A r \in Runs :
        /\ last[r] = <<"gh_clone", "nonzero">>
           => pc[r] = "failed" /\ result[r] = "SourceError"
        /\ last[r] = <<"gh_clone", "ok">> => pc[r] # "failed"

\* C17 as stated: with the directory present the acquisition raises exactly
\* when the pull of main and the pull of master both ran and failed, master
\* being pulled only after a failed pull of main; and an acquisition raises
\* on nothing but a failed pull or clone.
C17_Original ==
    /\ C17_Clone
    /\ \A r \in Runs :
        /\ PullAnswered(r)
           => (pc[r] = "failed"
                <=> /\ Ran(r, "main") /\ ~Ok(r, "main")
                    /\ Ran(r, "master") /\ ~Ok(r, "master"))
        /\ Ran(r, "master") => Ran(r, "main") /\ ~Ok(r, "main")
        /\ pc[r] = "failed" /\ last[r][1] \in GitSites
           => last[r] \in {<<"gh_pull", "nonzero">>, <<"gh_clone", "nonzero">>}

\* C17, amended: the pull command line fails the run, with the source error,
\* exactly when neither pull exited 0; main is pulled when cd into the
\* directory succeeded and master whenever main did not exit 0, which
\* includes a failed cd, after which main is not pulled at all and the pull
\* of master fails; a clone fails the run exactly when it exits non-zero; and
\* an acquisition also raises, with the error of the call, when one of its
\* calls (probe, mkdir -p, pull, clone) is rejected.
C17_FatalGit ==
    /\ C17_Clone
    /\ \A r \in Runs :
        /\ PullAnswered(r)
           => /\ pc[r] = "failed" <=> ~Ok(r, "main") /\ ~Ok(r, "master")
              /\ pc[r] = "failed" => result[r] = "SourceError"
              /\ last[r][2] = "nonzero" <=> pc[r] = "failed"
              /\ Ran(r, "main") <=> Ok(r, "cd")
              /\ Ran(r, "master") <=> ~Ok(r, "main")
              /\ ~Ok(r, "cd") => ~Ok(r, "master")
        /\ pc[r] = "failed" /\ last[r][1] \in GitSites
           => \/ last[r][2] = "nonzero" /\ last[r][1] \in {"gh_pull", "gh_clone"}
              \/ last[r][2] = "raise" /\ result[r] = "ExecError"
        /\ last[r][1] \in GitSites /\ last[r][2] = "raise" => pc[r] = "failed"

\* The pull of main failed, the pull of master that followed exited 0, and
\* the run went on to the build.
C17_Witness ==
    \E r \in Runs :
        /\ last[r] = <<"gh_pull", "ok">>
        /\ pulls[r] = << <<"cd", TRUE>>, <<"main", FALSE>>, <<"master", TRUE>> >>
        /\ pc[r] \in BuildSites

\* C18: in upload mode rm of the staged file is issued at most once in a
\* run, right after the extraction command; an extraction or copy that exits
\* 0 or non-zero is followed by it; a run past the acquisition has issued it
\* exactly once; and when it exits 0 the staged file is gone.
C18_StagingRemoved ==
    \A r \in Runs :
        IsUpload(r)
        => /\ Count(r, "up_rm") <= 1
           /\ \A i \in DOMAIN log[r] :
                log[r][i][1] = "up_rm" => log[r][i - 1][1] = "up_extract"
           /\ last[r][1] = "up_extract" /\ last[r][2] \in {"ok", "nonzero"}
              => pc[r] = "up_rm" /\ proj[r].ext \in tmp
           /\ pc[r] \in BuildSites \cup {"custom", "done"}
              => Count(r, "up_rm") = 1
           /\ last[r] = <<"up_rm", "ok">> => proj[r].ext \notin tmp

\* The extraction of a transferred archive exited non-zero and the removal
\* of the staged file is running.
C18_Witness ==
    \E r \in Runs :
        /\ IsUpload(r) /\ last[r] = <<"up_extract", "nonzero">>
        /\ pc[r] = "up_rm" /\ proj[r].ext \in tmp

IsNode(r) == proj[r].project_type = "nodejs"
\* The build commands run r has issued, in order.
BuildLog(r) ==
    LET calls == SelectSeq(log[r], LAMBDA e : e[1] \in BuildSites)
    IN  [i \in DOMAIN calls |-> calls[i][1]]

\* C19: the build of a nodejs project issues npm install first and the probe
\* `which pm2` second; the pm2 restart/start command is issued exactly when
\* the probe exits 0, and then chmod; when the probe exits non-zero chmod
\* follows it at once and no error is raised; no other project type issues
\* any of the three commands.
C19_NodeBuild ==
    \A r \in Runs :
        LET b == BuildLog(r)
        IN  /\ IsNode(r)
               => /\ b \in { <<>>, <<"node_install">>,
                              <<"node_install", "node_which">>,
                              <<"node_install", "node_which", "node_pm2">>,
                              <<"node_install", "node_which", "node_pm2",
                                "chmod">>,
                              <<"node_install", "node_which", "chmod">> }
                  /\ last[r] = <<"node_which", "ok">> => pc[r] = "node_pm2"
                  /\ last[r] = <<"node_which", "nonzero">>
                     => /\ pc[r] = "chmod" /\ result[r] = Null
                        /\ b = <<"node_install", "node_which", "chmod">>
                  /\ last[r][1] = "node_install" /\ last[r][2] # "raise"
                     => pc[r] = "node_which"
            /\ ~IsNode(r)
               => Sites(r) \cap {"node_install", "node_which", "node_pm2"} = {}

\* A nodejs project on a host without pm2: deploy() returned true with npm
\* install, the probe and chmod as its build.
C19_Witness ==
    \E r \in Runs :
        /\ IsNode(r) /\ pc[r] = "done" /\ result[r] = "ok"
        /\ BuildLog(r) = <<"node_install", "node_which", "chmod">>

\* A run past the probe of createBackup whose project directory is absent
\* has issued no backup command but the probe.
C20_NoBackupCalls ==
    \A r \in Runs :
        /\ Running(r) /\ pc[r] \notin {"connect", "bk_probe"}
        /\ dir[proj[r].name] = "absent"
        => Sites(r) \cap BackupSites = {"bk_probe"}

\* The step that answers the probe for an absent directory leaves
\* createBackup, and leaves the backup directory and the archives as they
\* were.
C20_ProbeFrame ==
    \A r \in Runs :
        /\ pc[r] = "bk_probe" /\ pc'[r] # "bk_probe"
        /\ dir[proj[r].name] = "absent"
        => /\ pc'[r] \notin BackupSites
           /\ bdir' = bdir /\ archives' = archives /\ created' = created

\* C20: when the probe finds no directory {deploy_path}/{name}, createBackup
\* issues no mkdir, no tar and no retention command, and the backup directory
\* and the set of archives on the host are unchanged by it.
C20_AbsentNoBackup == []C20_NoBackupCalls /\ [][C20_ProbeFrame]_vars

\* With archives of another project on the host, the probe found no
\* directory for this one and the run is at the probe of the source step.
C20_Witness ==
    \E r \in Runs :
        /\ last[r] = <<"bk_probe", "ok">> /\ pc[r] = "gh_probe"
        /\ dir[proj[r].name] = "absent" /\ archives # {}
        /\ Sites(r) \cap BackupSites = {"bk_probe"}

\* The run whose deploy() took the step: its position or its call log moved.
Stepped(r) == pc'[r] # pc[r] \/ log'[r] # log[r]

\* A run past its connect holds an open session with its one awaited call on
\* it, whatever the other runs have done.
C21_OwnSession ==
    \A r \in Runs :
        Running(r) /\ pc[r] # "connect" => sess[r] = "open" /\ inflight[r] = 1

\* A step belongs to at most one run; it leaves the session, the calls, the
\* dispose count and the outcome of every other run as they were, and a remote
\* command is issued only on the open session of the run that issues it.
C21_OtherRunsUntouched ==
    /\ Cardinality({ r \in Runs : Stepped(r) }) <= 1
    /\ \A r \in Runs :
        /\ ~Stepped(r) =>
            /\ sess'[r] = sess[r]
            /\ inflight'[r] = inflight[r]
            /\ disposals'[r] = disposals[r]
            /\ result'[r] = result[r]
        /\ Len(log'[r]) > Len(log[r]) /\ pc'[r] # "connect" =>
            sess[r] # "closed" /\ sess'[r] = "open"

\* C21: concurrent deploy runs share no mutable state: each run opens and uses
\* its own session, every remote command of a run is issued on that run's
\* session, and the release of one run's session leaves the session of a run
\* still in progress open, under every interleaving of two runs.
C21_NoSharedState == []C21_OwnSession /\ [][C21_OtherRunsUntouched]_vars

\* Two runs overlapped: one connected first and is still running on its open
\* session, the other connected later and has ended with its session released.
C21_Witness ==
    \E r, q \in Runs :
        /\ r # q
        /\ Ended(r) /\ sess[r] = "closed" /\ disposals[r] = 1
        /\ Running(q) /\ sess[q] = "open"
        /\ 0 < stamp[q] /\ stamp[q] < stamp[r]

\* C25: whenever a deploy run of a project is in progress, the project's
\* persisted status is 'deploying': no run's completion has written 'active'
\* or 'error' while another run of that project is still running.
C25_DeployingWhileRunning ==
    \A r \in Runs :
        rt[r] = "deploying" /\ Running(r) =>
            status[rproj[r].name] = "deploying"

\* C22: after any sequence of server create and update requests, every row of
\* the table servers has a password or a private key: a create request with
\* neither is answered 400 and inserts nothing, and an update leaves at least
\* one of the two in the row.
C22_OneCredentialKept ==
    /\ \A i \in ServerIds :
        serverRows[i] # NoRow =>
            ~Falsy(serverRows[i].ssh_password)
                \/ ~Falsy(serverRows[i].ssh_private_key)
    /\ \A k \in Runs :
        /\ h[k].op = "createServer"
        /\ Falsy(h[k].body.ssh_password)
        /\ Falsy(h[k].body.ssh_private_key)
        => h[k].at = "sent" /\ h[k].code = 400

\* An update that gave neither credential has been written to a row, and a
\* create that gave neither has been answered.
C22_Witness ==
    \E k, q \in Runs :
        /\ In(k, "updateServer", "sent") /\ h[k].code = 200
        /\ Falsy(h[k].body.ssh_password)
        /\ Falsy(h[k].body.ssh_private_key)
        /\ serverRows[h[k].id] # NoRow
        /\ In(q, "createServer", "sent") /\ h[q].code = 400

\* The test-connection handler in slot k has ended: it has answered, or its
\* promise rejected.
TestEnded(k) == h[k].op = "testServer" /\ h[k].at \in {"sent", "rejected"}

\* C26: in the test-connection operation a session that has been opened is
\* released exactly once on every exit path: when the remote command fails,
\* when the status update after the connect fails, and when the lookup inside
\* the failure handler fails.
C26_ReleasedOnce ==
    \A k \in Runs :
        TestEnded(k) /\ h[k].connected =>
            h[k].disposals = 1 /\ h[k].ssh = "closed"

\* C23: after any sequence of project create, upload-create and update
\* requests, every row of the table projects has exactly the source field of
\* its source mode: a github project a source_url and no source_path, an
\* upload project a source_path and no source_url.
C23_SourceBySourceType ==
    \A j \in ProjectIds :
        projectRows[j] # NoRow =>
            /\ projectRows[j].source_type = "github" =>
                /\ ~Falsy(projectRows[j].source_url)
                /\ Falsy(projectRows[j].source_path)
            /\ projectRows[j].source_type = "upload" =>
                /\ ~Falsy(projectRows[j].source_path)
                /\ Falsy(projectRows[j].source_url)

\* Every project row references a server row that exists.
C24_ReferencesExist ==
    \A j \in ProjectIds :
        projectRows[j] # NoRow =>
            /\ projectRows[j].server_id \in ServerIds
            /\ serverRows[projectRows[j].server_id] # NoRow

\* A step inserts a project row only for a server row that exists, and
\* deletes a server row only when no project row references it.
C24_CheckedSteps ==
    /\ \A j \in ProjectIds :
        projectRows[j] = NoRow /\ projectRows'[j] # NoRow =>
            /\ serverRows[projectRows'[j].server_id] # NoRow
            /\ serverRows'[projectRows'[j].server_id] # NoRow
    /\ \A i \in ServerIds :
        serverRows[i] # NoRow /\ serverRows'[i] = NoRow =>
            Referencing(i) = {} /\ Referencing(i)' = {}

====
